---- MODULE Spec2Model ----
(***************************************************************************)
(* Model of the bookmark search workflow (src/src/main.rs).                *)
(*                                                                         *)
(* Text is modelled as a sequence of one-character strings, so that        *)
(* trimming, ASCII case folding, substring search, formatting and the      *)
(* fuzzy matcher all operate on characters as the program does.            *)
(*                                                                         *)
(* Bookmark::calculate_matching_score calls SkimMatcherV2::default()       *)
(* .fuzzy_match of the fuzzy_matcher crate.  The operators from            *)
(* char_type_of to fuzzy_match below follow that matcher: smart case,      *)
(* the ordered-subsequence pre-check, and the affine-gap alignment         *)
(*     M[i][j] = match(i,j) + max(M[i-1][j-1] + consecutive,               *)
(*                                P[i-1][j-1] + in-place bonus)            *)
(*     P[i][j] = max(gap_start + gap_extension + M[i][j-1],                *)
(*                   gap_extension + P[i][j-1])                            *)
(* with the default SkimScoreConfig.                                       *)
(***************************************************************************)
EXTENDS Integers, Sequences, FiniteSets, TLC

VARIABLES pc, bookmarks_file, default_search_url, contents, built,
          bookmarks, raw_arg, arg, ranked, scored, matched, items, output,
          found

vars == <<pc, bookmarks_file, default_search_url, contents, built,
          bookmarks, raw_arg, arg, ranked, scored, matched, items, output,
          found>>

(***************************************************************************)
(* Bounds of the model.                                                    *)
(***************************************************************************)
\* Largest number of entries in the bookmarks file.
MaxBookmarks == 3
\* Number of filler characters between the two matched characters of the
\* long bookmark name.
GapLen == 45
\* Longest name and longest query of the Bookmark::find unit test harness.
MaxFindName == 3
MaxFindQuery == 2

(***************************************************************************)
(* Characters and strings.                                                 *)
(***************************************************************************)
\* Option<T>: None is the empty sequence, Some(x) the one-element sequence.
None == <<>>
Some(x) == <<x>>
unwrap(o) == o[1]
\* The character '\0' that stands before the first character of a choice.
NUL == "NUL"

UpperCase == <<"A", "B", "C", "D", "E", "F", "G", "H", "I", "J", "K", "L", "M",
               "N", "O", "P", "Q", "R", "S", "T", "U", "V", "W", "X", "Y", "Z">>
LowerCase == <<"a", "b", "c", "d", "e", "f", "g", "h", "i", "j", "k", "l", "m",
               "n", "o", "p", "q", "r", "s", "t", "u", "v", "w", "x", "y", "z">>
Digits == {"0", "1", "2", "3", "4", "5", "6", "7", "8", "9"}
WhiteSpace == {" "}

Range(s) == {s[i] : i \in DOMAIN s}
Max(a, b) == IF a >= b THEN a ELSE b

is_ascii_uppercase(c) == c \in Range(UpperCase)
is_ascii_lowercase(c) == c \in Range(LowerCase)

\* char::to_ascii_lowercase
char_to_ascii_lowercase(c) ==
    IF is_ascii_uppercase(c)
    THEN LowerCase[CHOOSE i \in DOMAIN UpperCase : UpperCase[i] = c]
    ELSE c

\* str::to_ascii_lowercase (main.rs:110); str::to_lowercase on ASCII text
\* (main.rs:37).
to_ascii_lowercase(s) == [i \in DOMAIN s |-> char_to_ascii_lowercase(s[i])]
to_lowercase(s) == [i \in DOMAIN s |-> char_to_ascii_lowercase(s[i])]

RECURSIVE trim_start(_)
trim_start(s) ==
    IF s # <<>> /\ Head(s) \in WhiteSpace THEN trim_start(Tail(s)) ELSE s

RECURSIVE trim_end(_)
trim_end(s) ==
    IF s # <<>> /\ s[Len(s)] \in WhiteSpace
    THEN trim_end(SubSeq(s, 1, Len(s) - 1))
    ELSE s

\* A dispatcher that forgets to trim the argument.
trim_skipped(s) == s

\* str::trim (main.rs:109)
trim(s) == trim_end(trim_start(s))

\* Whether needle starts at position k of hay.
starts_at(hay, needle, k) ==
    /\ k + Len(needle) - 1 <= Len(hay)
    /\ \A i \in 1..Len(needle) : hay[k + i - 1] = needle[i]

\* str::contains (main.rs:37): scan the start positions left to right.
RECURSIVE contains_from(_, _, _)
contains_from(hay, needle, k) ==
    IF k + Len(needle) - 1 > Len(hay) THEN FALSE
    ELSE IF starts_at(hay, needle, k) THEN TRUE
    ELSE contains_from(hay, needle, k + 1)

contains(hay, needle) == contains_from(hay, needle, 1)

(***************************************************************************)
(* fuzzy_matcher::skim::SkimMatcherV2, default configuration.              *)
(***************************************************************************)
score_match == 16
gap_start == -3
gap_extension == -1
bonus_first_char_multiplier == 2
bonus_head == score_match \div 2
bonus_break == score_match \div 2 + gap_extension
bonus_camel == score_match \div 2 + 2 * gap_extension
bonus_consecutive == -(gap_start + gap_extension)
penalty_case_mismatch == gap_extension * 2
AWFUL_SCORE == -(2 ^ 30)

HardSep == {" ", "/", "\\", "|", "(", ")", "[", "]", "{", "}"}
SoftSep == {"-", "_", ".", ",", ":", ";", "!", "?", "'", "#", "&", "+", "="}

\* "Empty" is the type of the position before the first character.
char_type_of(c) ==
    IF c = NUL THEN "Empty"
    ELSE IF is_ascii_lowercase(c) THEN "Lower"
    ELSE IF is_ascii_uppercase(c) THEN "Upper"
    ELSE IF c \in Digits THEN "Number"
    ELSE IF c \in HardSep THEN "HardSep"
    ELSE IF c \in SoftSep THEN "SoftSep"
    ELSE "NonWord"

char_role(prev, cur) ==
    LET p == char_type_of(prev)
        c == char_type_of(cur)
    IN  IF p \in {"Empty", "HardSep"} THEN "Head"
        ELSE IF p = "SoftSep" THEN "Break"
        ELSE IF p \in {"Lower", "Number"} /\ c = "Upper" THEN "Camel"
        ELSE "Tail"

in_place_bonus(prev, cur) ==
    LET role == char_role(prev, cur)
    IN  IF role = "Head" THEN bonus_head
        ELSE IF role = "Camel" THEN bonus_camel
        ELSE IF role = "Break" THEN bonus_break
        ELSE 0

\* The bonus of every position of the choice; the first position's bonus is
\* multiplied.
build_in_place_bonus(choice) ==
    [j \in DOMAIN choice |->
        IF j = 1
        THEN in_place_bonus(NUL, choice[1]) * bonus_first_char_multiplier
        ELSE in_place_bonus(choice[j - 1], choice[j])]

\* Smart case: the match is case sensitive iff the pattern holds an ASCII
\* upper-case letter.
contains_upper(pattern) == \E i \in DOMAIN pattern : is_ascii_uppercase(pattern[i])

char_equal(a, b, case_sensitive) ==
    IF case_sensitive THEN a = b
    ELSE char_to_ascii_lowercase(a) = char_to_ascii_lowercase(b)

\* The first position of the choice, from position start on, that holds the
\* pattern character p.
first_match_index(choice, p, start, case_sensitive) ==
    LET hits == { j \in start..Len(choice) : char_equal(choice[j], p, case_sensitive) }
    IN  IF hits = {} THEN None
        ELSE Some(CHOOSE j \in hits : \A k \in hits : j <= k)

\* The pattern's characters occur in the choice, in order: every pattern
\* character has a first match after the first match of the one before it.
RECURSIVE cheap_matches_from(_, _, _, _)
cheap_matches_from(choice, pattern, start, case_sensitive) ==
    IF pattern = <<>> THEN TRUE
    ELSE LET at == first_match_index(choice, Head(pattern), start, case_sensitive)
         IN  IF at = None THEN FALSE
             ELSE cheap_matches_from(choice, Tail(pattern), unwrap(at) + 1,
                                     case_sensitive)

cheap_matches(choice, pattern, case_sensitive) ==
    cheap_matches_from(choice, pattern, 1, case_sensitive)

\* The score of matching choice character c with pattern character p.
calculate_match_score(c, p, case_sensitive) ==
    IF ~char_equal(c, p, case_sensitive) THEN None
    ELSE Some(Max(0, score_match
                + (IF ~case_sensitive /\ p # c THEN penalty_case_mismatch ELSE 0)))

MATRIX_CELL_NEG_INFINITY == [m |-> AWFUL_SCORE, p |-> AWFUL_SCORE, bonus |-> 0]

\* One cell of the score matrix from the cell up-left of it (diag) and the
\* cell left of it (left).
matrix_cell(diag, left, c, p, in_place, case_sensitive) ==
    LET cur == calculate_match_score(c, p, case_sensitive)
        consecutive == Max(diag.bonus, Max(in_place, bonus_consecutive))
        by_match == diag.m + consecutive
        by_skip == diag.p + in_place
        p_score == Max(gap_start + gap_extension + left.m, gap_extension + left.p)
    IN  IF cur = None
        THEN [m |-> AWFUL_SCORE, p |-> p_score, bonus |-> 0]
        ELSE IF by_match >= by_skip
        THEN [m |-> by_match + unwrap(cur), p |-> p_score, bonus |-> consecutive]
        ELSE [m |-> by_skip + unwrap(cur), p |-> p_score, bonus |-> in_place]

\* Row i of the matrix from row i-1 (prev), left to right: acc holds the
\* columns before column lo, the result the columns up to column hi.  The
\* range is halved, and the left half is evaluated (it always has mid + 1
\* columns) before the right half starts, so that the evaluation nests only
\* logarithmically deep.
RECURSIVE matrix_row(_, _, _, _, _, _, _, _)
matrix_row(prev, choice, p, bonuses, case_sensitive, lo, hi, acc) ==
    IF lo > hi THEN acc
    ELSE IF lo = hi
    THEN Append(acc, matrix_cell(prev[lo], acc[lo], choice[lo], p, bonuses[lo],
                                 case_sensitive))
    ELSE LET mid == (lo + hi) \div 2
             left == matrix_row(prev, choice, p, bonuses, case_sensitive,
                                lo, mid, acc)
         IN  IF Len(left) = mid + 1
             THEN matrix_row(prev, choice, p, bonuses, case_sensitive,
                             mid + 1, hi, left)
             ELSE left

\* Rows are sequences whose element j+1 is column j.  Row 0: nothing is
\* matched yet and skipping leading characters costs nothing.
RECURSIVE build_score_matrix(_, _, _, _, _)
build_score_matrix(prev, choice, pattern, bonuses, case_sensitive) ==
    IF pattern = <<>> THEN prev
    ELSE build_score_matrix(
            matrix_row(prev, choice, Head(pattern), bonuses, case_sensitive, 1,
                       Len(choice), <<MATRIX_CELL_NEG_INFINITY>>),
            choice, Tail(pattern), bonuses, case_sensitive)

\* The best score of an alignment that ends with a match.
max_m_score(row) ==
    CHOOSE v \in { row[j].m : j \in DOMAIN row } :
        \A j \in DOMAIN row : v >= row[j].m

\* FuzzyMatcher::fuzzy_match: None, or the score of the best alignment.
fuzzy_match(choice, pattern) ==
    IF pattern = <<>> THEN Some(0)
    ELSE LET case_sensitive == contains_upper(pattern)
         IN  IF ~cheap_matches(choice, pattern, case_sensitive) THEN None
             ELSE LET row0 == [j \in 1..(Len(choice) + 1) |->
                                 [m |-> AWFUL_SCORE, p |-> 0, bonus |-> 0]]
                      last == build_score_matrix(row0, choice, pattern,
                                  build_in_place_bonus(choice), case_sensitive)
                  IN  Some(max_m_score(last))

(***************************************************************************)
(* Inputs                                                                  *)
(***************************************************************************)
Filler(n) == [i \in 1..n |-> "x"]

Dashboard == <<"D", "a", "s", "h", "b", "o", "a", "r", "d">>
dashboard == <<"d", "a", "s", "h", "b", "o", "a", "r", "d">>
DashReports == <<"D", "a", "s", "h", " ", "R", "e", "p", "o", "r", "t", "s">>
Other == <<"O", "t", "h", "e", "r">>
\* "a", GapLen filler characters, "b".
LongGap == <<"a">> \o Filler(GapLen) \o <<"b">>

JsonEntry(title, href) == [title |-> title, href |-> href]

WellFormedEntries ==
    { JsonEntry(Some(Dashboard), Some("http://a")),
      JsonEntry(Some(dashboard), Some("http://d")),
      JsonEntry(Some(DashReports), Some("http://b")),
      JsonEntry(Some(Other), Some("http://c")),
      JsonEntry(Some(LongGap), Some("http://g")) }

MalformedEntries ==
    { JsonEntry(None, Some("http://e")),
      JsonEntry(Some(Other), None) }

JsonEntries == WellFormedEntries \cup MalformedEntries

SeqsUpTo(S, n) == UNION { [1..k -> S] : k \in 0..n }

\* A document is a sequence of folders, a folder a sequence of entries: no
\* folder, or the entries in one folder, or the entries cut into two folders
\* at any position.
Documents ==
    { <<>> } \cup
    UNION { { <<flat>> } \cup
            { <<SubSeq(flat, 1, cut), SubSeq(flat, cut + 1, Len(flat))>> :
                cut \in 0..Len(flat) } :
            flat \in SeqsUpTo(JsonEntries, MaxBookmarks) }

SearchUrls == { "https://search.example/?q=", "https://duck.example/" }

\* The first command-line argument: absent, or one of these texts.
Arguments ==
    { None,
      Some(<<>>),
      Some(<<" ">>),
      Some(<<"d", "a", "s", "h">>),
      Some(<<"D", "A", "S", "H">>),
      Some(<<" ", "D", "a", "s", "h", " ">>),
      Some(<<"a", "b">>),
      Some(<<"d", "b">>),
      Some(<<"z", "z">>),
      Some(<<" ", "Z", "Z">>) }

\* env::args().nth(1).as_deref().map(str::trim).map(str::to_ascii_lowercase)
normalize(raw) ==
    IF raw = None THEN None ELSE Some(to_ascii_lowercase(trim(unwrap(raw))))

\* The matcher's result for every name and query of the inputs, computed
\* once: the set of <<name, query, fuzzy_match(name, query)>>.
KnownNames == { unwrap(e.title) : e \in { w \in JsonEntries : w.title # None } }
KnownQueries == { unwrap(normalize(a)) : a \in Arguments \ { None } }
KnownScores ==
    { <<n, q, fuzzy_match(n, q)>> : n \in KnownNames, q \in KnownQueries }

\* matcher.fuzzy_match(&self.name[..], &query[..])
matcher_fuzzy_match(name, query) ==
    IF name \in KnownNames /\ query \in KnownQueries
    THEN (CHOOSE t \in KnownScores : t[1] = name /\ t[2] = query)[3]
    ELSE fuzzy_match(name, query)

(***************************************************************************)
(* Bookmark (main.rs:14-48)                                                *)
(***************************************************************************)
\* struct Bookmark { name, link }
Bookmark(name, link) == [name |-> name, link |-> link]

\* JsonValue::as_str of value["title"] and value["href"] is None when the
\* member is missing; a loader that substitutes an empty string instead of
\* unwrapping.
from_json_value_or_default(value) ==
    Some(Bookmark(IF value.title = None THEN <<>> ELSE unwrap(value.title),
                  IF value.href = None THEN "" ELSE unwrap(value.href)))

\* Bookmark::from_json_value: Some(bookmark), or None when an unwrap panics.
from_json_value(value) ==
    IF value.title = None \/ value.href = None THEN None
    ELSE Some(Bookmark(unwrap(value.title), unwrap(value.href)))

\* An item titled with the lower-cased name.
to_item_lowercased(b) ==
    [title |-> to_lowercase(b.name), subtitle |-> "Open in browser →",
     arg |-> b.link]

\* Bookmark::to_item
to_item(b) ==
    [title |-> b.name, subtitle |-> "Open in browser →", arg |-> b.link]

\* A search that compares the name as stored.
find_case_sensitive(b, query) == contains(b.name, query)

\* Bookmark::find
find(b, query) == contains(to_lowercase(b.name), query)

\* Option::get_or_insert(0) on the matcher's result.
get_or_insert_0(o) == IF o = None THEN 0 ELSE unwrap(o)

\* Bookmark::calculate_matching_score: the negated score, 0 for no match.
calculate_matching_score(b, query) ==
    -get_or_insert_0(matcher_fuzzy_match(b.name, query))


(***************************************************************************)
(* read_bookmarks (main.rs:50-66)                                          *)
(***************************************************************************)
\* entries().map(|e| e.1) ... members() ... flatten(): the members of every
\* folder, folder after folder.
RECURSIVE flatten(_)
flatten(folders) ==
    IF folders = <<>> THEN <<>> ELSE Head(folders) \o flatten(Tail(folders))

\* The bookmarks built from the values, in order, until one panics:
\* [built |-> the bookmarks built, ok |-> no value panicked].
RECURSIVE collect(_, _)
collect(values, acc) ==
    IF values = <<>> THEN [built |-> acc, ok |-> TRUE]
    ELSE LET b == from_json_value(Head(values))
         IN  IF b = None THEN [built |-> acc, ok |-> FALSE]
             ELSE collect(Tail(values), Append(acc, unwrap(b)))

\* read_bookmarks on a parsed document.
read_bookmarks(folders) == collect(flatten(folders), <<>>)

(***************************************************************************)
(* Items (main.rs:68-97)                                                   *)
(***************************************************************************)
SearchForBookmarks ==
    <<"S", "e", "a", "r", "c", "h", " ", "f", "o", "r", " ",
      "b", "o", "o", "k", "m", "a", "r", "k", "s">>
NothingFoundFor ==
    <<"n", "o", "t", "h", "i", "n", "g", " ", "f", "o", "u", "n", "d", " ",
      "f", "o", "r", " ">>
TrySearchOnWebsite ==
    <<",", " ", "t", "r", "y", " ", "s", "e", "a", "r", "c", "h", " ",
      "o", "n", " ", "w", "e", "b", "s", "i", "t", "e">>

\* fn empty
empty(url) ==
    [title |-> SearchForBookmarks, subtitle |-> "Open them →", arg |-> url]

\* A fallback item whose message leaves the query out.
default_without_query(query, url) ==
    [title |-> NothingFoundFor \o TrySearchOnWebsite,
     subtitle |-> "Open them →", arg |-> url]

\* fn default: format!("nothing found for {}, try search on website", query)
default(query, url) ==
    [title |-> NothingFoundFor \o query \o TrySearchOnWebsite,
     subtitle |-> "Open them →", arg |-> url]

\* Stable insertion of reference r into refs, which is sorted by key: r goes
\* after every reference whose key is not greater.
RECURSIVE insert_by_key(_, _, _, _)
insert_by_key(refs, r, bs, query) ==
    IF refs = <<>> THEN <<r>>
    ELSE IF calculate_matching_score(bs[Head(refs)], query)
            <= calculate_matching_score(bs[r], query)
         THEN <<Head(refs)>> \o insert_by_key(Tail(refs), r, bs, query)
         ELSE <<r>> \o refs

RECURSIVE sort_from(_, _, _, _)
sort_from(sorted, rest, bs, query) ==
    IF rest = <<>> THEN sorted
    ELSE sort_from(insert_by_key(sorted, Head(rest), bs, query), Tail(rest),
                   bs, query)

\* A sort on the key that yields the greatest key first.
RECURSIVE reverse(_)
reverse(s) == IF s = <<>> THEN <<>> ELSE reverse(Tail(s)) \o <<Head(s)>>

sorted_by_key_reversed(refs, bs, query) ==
    reverse(sort_from(<<>>, refs, bs, query))

\* A merge step that emits the first reference again.
sorted_by_key_repeating(refs, bs, query) ==
    LET sorted == sort_from(<<>>, refs, bs, query)
    IN  IF sorted = <<>> THEN sorted ELSE sorted \o <<Head(sorted)>>

\* Itertools::sorted_by_key (a stable sort) over references to bookmarks; a
\* reference is the position of the bookmark in the vector.
sorted_by_key(refs, bs, query) == sort_from(<<>>, refs, bs, query)

\* Iterator::filter(|bookmark| bookmark.calculate_matching_score(query) < 0)
RECURSIVE filter_matching(_, _, _)
filter_matching(refs, bs, query) ==
    IF refs = <<>> THEN <<>>
    ELSE (IF calculate_matching_score(bs[Head(refs)], query) < 0
          THEN <<Head(refs)>> ELSE <<>>)
         \o filter_matching(Tail(refs), bs, query)

\* bookmarks.iter()
iter(bs) == [i \in DOMAIN bs |-> i]

\* The references that reach map(to_item), in order.
matched_refs(bs, query) ==
    filter_matching(sorted_by_key(iter(bs), bs, query), bs, query)

\* to_items without the fallback.
to_items_no_fallback(bs, query, url) ==
    [k \in DOMAIN matched_refs(bs, query) |->
        to_item(bs[matched_refs(bs, query)[k]])]

\* fn to_items
to_items(bs, query, url) ==
    LET refs == matched_refs(bs, query)
        matched_bookmarks == [k \in DOMAIN refs |-> to_item(bs[refs[k]])]
    IN  IF matched_bookmarks = <<>> THEN <<default(query, url)>>
        ELSE matched_bookmarks

(***************************************************************************)
(* fn main (main.rs:99-118)                                                *)
(***************************************************************************)
Init ==
    /\ pc = "start"
    /\ bookmarks_file = None
    /\ default_search_url = None
    /\ contents = None
    /\ built = <<>>
    /\ bookmarks = <<>>
    /\ raw_arg = None
    /\ arg = None
    /\ ranked = FALSE
    /\ scored = FALSE
    /\ matched = <<>>
    /\ items = <<>>
    /\ output = None
    /\ found = None

\* env::var("BOOKMARKS_FILE").expect(..)
GetBookmarksFile ==
    /\ pc = "start"
    /\ \E v \in { None, Some("bookmarks.json") } :
        /\ bookmarks_file' = v
        /\ pc' = IF v = None THEN "panicked" ELSE "env_url"
    /\ UNCHANGED <<default_search_url, contents, built, bookmarks, raw_arg,
                   arg, ranked, scored, matched, items, output, found>>

\* env::var("DEFAULT_SEARCH_URL").expect(..)
GetDefaultSearchUrl ==
    /\ pc = "env_url"
    /\ \E v \in { None } \cup { Some(u) : u \in SearchUrls } :
        /\ default_search_url' = v
        /\ pc' = IF v = None THEN "panicked" ELSE "read_file"
    /\ UNCHANGED <<bookmarks_file, contents, built, bookmarks, raw_arg, arg,
                   ranked, scored, matched, items, output, found>>

\* fs::read_to_string(bookmarks_file).expect(..): the file is unreadable, or
\* holds text that is not JSON, or holds a document.
ReadToString ==
    /\ pc = "read_file"
    /\ \/ /\ contents' = None
          /\ pc' = "panicked"
       \/ /\ contents' = Some([json |-> FALSE, folders |-> <<>>])
          /\ pc' = "read_bookmarks"
       \/ \E d \in Documents :
          /\ contents' = Some([json |-> TRUE, folders |-> d])
          /\ pc' = "read_bookmarks"
    /\ UNCHANGED <<bookmarks_file, default_search_url, built, bookmarks,
                   raw_arg, arg, ranked, scored, matched, items, output, found>>

\* let bookmarks = read_bookmarks(contents): json::parse(..).unwrap() panics
\* on text that is not JSON, from_json_value on a malformed entry.
ReadBookmarks ==
    /\ pc = "read_bookmarks"
    /\ IF ~unwrap(contents).json
       THEN /\ pc' = "panicked"
            /\ UNCHANGED <<built, bookmarks>>
       ELSE LET r == read_bookmarks(unwrap(contents).folders)
            IN  /\ built' = r.built
                /\ IF r.ok
                   THEN bookmarks' = r.built /\ pc' = "args"
                   ELSE bookmarks' = bookmarks /\ pc' = "panicked"
    /\ UNCHANGED <<bookmarks_file, default_search_url, contents, raw_arg, arg,
                   ranked, scored, matched, items, output, found>>

ParseArgs ==
    /\ pc = "args"
    /\ \E raw \in Arguments :
        /\ raw_arg' = raw
        /\ arg' = normalize(raw)
    /\ pc' = "dispatch"
    /\ UNCHANGED <<bookmarks_file, default_search_url, contents, built,
                   bookmarks, ranked, scored, matched, items, output, found>>

\* match arg.as_deref() { None | Some("") => .., Some(query) => .. }
Dispatch ==
    /\ pc = "dispatch"
    /\ IF arg = None \/ arg = Some(<<>>)
       THEN /\ items' = <<empty(unwrap(default_search_url))>>
            /\ UNCHANGED <<ranked, scored, matched>>
       ELSE /\ items' = to_items(bookmarks, unwrap(arg),
                                 unwrap(default_search_url))
            /\ matched' = matched_refs(bookmarks, unwrap(arg))
            /\ ranked' = TRUE
            /\ scored' = (bookmarks # <<>>)
    /\ pc' = "output"
    /\ UNCHANGED <<bookmarks_file, default_search_url, contents, built,
                   bookmarks, raw_arg, arg, output, found>>

\* powerpack::output(items)
Output ==
    /\ pc = "output"
    /\ output' = Some(items)
    /\ pc' = "done"
    /\ UNCHANGED <<bookmarks_file, default_search_url, contents, built,
                   bookmarks, raw_arg, arg, ranked, scored, matched, items,
                   found>>

Next ==
    \/ GetBookmarksFile
    \/ GetDefaultSearchUrl
    \/ ReadToString
    \/ ReadBookmarks
    \/ ParseArgs
    \/ Dispatch
    \/ Output

Spec == Init /\ [][Next]_vars

(***************************************************************************)
(* The unit test tests::finds_bookmark (main.rs:124-131), for every name   *)
(* and query of the harness.                                               *)
(***************************************************************************)
FindAlphabet == { "a", "b", "A" }

FindNames == SeqsUpTo(FindAlphabet, MaxFindName) \cup { Dashboard }

FindQueries == SeqsUpTo(FindAlphabet, MaxFindQuery) \cup { <<"d", "a", "s", "h">> }

InitFind ==
    /\ pc = "test"
    /\ \E name \in FindNames : bookmarks = <<Bookmark(name, "http://www.test.blub")>>
    /\ \E query \in FindQueries : arg = Some(query)
    /\ bookmarks_file = None
    /\ default_search_url = None
    /\ contents = None
    /\ built = <<>>
    /\ raw_arg = None
    /\ ranked = FALSE
    /\ scored = FALSE
    /\ matched = <<>>
    /\ items = <<>>
    /\ output = None
    /\ found = None

\* bookmark.find(String::from(query))
FindsBookmark ==
    /\ pc = "test"
    /\ found' = Some(find(bookmarks[1], unwrap(arg)))
    /\ pc' = "tested"
    /\ UNCHANGED <<bookmarks_file, default_search_url, contents, built,
                   bookmarks, raw_arg, arg, ranked, scored, matched, items,
                   output>>

NextFind == FindsBookmark

SpecFind == InitFind /\ [][NextFind]_vars

(***************************************************************************)
(* Vocabulary of the properties                                            *)
(***************************************************************************)
\* The items have been computed.
Dispatched == pc \in {"output", "done"}

\* The argument is absent, or empty, or holds white space only.
Blank(raw) == raw = None \/ \A i \in DOMAIN unwrap(raw) : unwrap(raw)[i] \in WhiteSpace

\* The characters of q occur in s from position start on, in order and not
\* necessarily next to each other.
RECURSIVE OccursInOrder(_, _, _)
OccursInOrder(q, s, start) ==
    \/ q = <<>>
    \/ \E j \in start..Len(s) : s[j] = Head(q) /\ OccursInOrder(Tail(q), s, j + 1)

\* The normalized query is an ordered subsequence of the normalized name of
\* the bookmark at position r.
Qualifies(r) == OccursInOrder(unwrap(arg), to_lowercase(bookmarks[r].name), 1)

\* q occurs in s as a block of adjacent characters.
IsInfix(q, s) ==
    \E k \in 0..(Len(s) - Len(q)) : \A i \in 1..Len(q) : s[k + i] = q[i]

\* The fuzzy match score of the surviving bookmark at position r.
ScoreOf(r) == unwrap(matcher_fuzzy_match(bookmarks[r].name, unwrap(arg)))

\* The entries of the file that was read, in order.
SourceEntries ==
    IF contents = None THEN <<>> ELSE flatten(unwrap(contents).folders)

Malformed(e) == e.title = None \/ e.href = None

(***************************************************************************)
(* Properties                                                              *)
(***************************************************************************)

\* C1: after a ranking, the bookmark at a position of the collection is among
\* the ranked bookmarks if and only if the characters of the normalized query
\* occur, in order, in the normalized name of that bookmark.
C1_ExclusionCorrectness ==
    (Dispatched /\ ranked) =>
        \A r \in DOMAIN bookmarks :
            (\E k \in DOMAIN matched : matched[k] = r) <=> Qualifies(r)

\* C2: the ranked bookmarks are in non-increasing order of fuzzy match score,
\* and two ranked bookmarks of equal score keep the order they have in the
\* collection.
C2_OrderedByScoreStable ==
    (Dispatched /\ ranked) =>
        \A i, j \in DOMAIN matched :
            i < j =>
                /\ ScoreOf(matched[i]) >= ScoreOf(matched[j])
                /\ ScoreOf(matched[i]) = ScoreOf(matched[j])
                       => matched[i] < matched[j]

\* A ranking of three bookmarks in which the sort moved a later bookmark of
\* greater score to the front and two bookmarks tie.
C2_Witness ==
    /\ pc = "done"
    /\ ranked
    /\ Len(matched) = 3
    /\ \E i, j \in DOMAIN matched :
          i < j /\ matched[i] > matched[j] /\ ScoreOf(matched[i]) > ScoreOf(matched[j])
    /\ \E i, j \in DOMAIN matched :
          i < j /\ ScoreOf(matched[i]) = ScoreOf(matched[j])

\* C3: when the argument is absent, empty or white space only, to_items is
\* not called, no score is computed, and the output is exactly one prompt
\* item that is no bookmark's item and whose payload is the default search
\* url.
C3_EmptyQueryShortCircuit ==
    (Dispatched /\ Blank(raw_arg)) =>
        /\ ~ranked
        /\ ~scored
        /\ Len(items) = 1
        /\ items[1].title = SearchForBookmarks
        /\ items[1].arg = unwrap(default_search_url)
        /\ \A r \in DOMAIN bookmarks : items[1] # to_item(bookmarks[r])
        /\ pc = "done" => output = Some(items)

\* A white-space-only argument was dispatched against a collection that is
\* not empty.
C3_Witness ==
    /\ pc = "done"
    /\ raw_arg = Some(<<" ">>)
    /\ Len(bookmarks) = 2
    /\ Len(items) = 1

\* C4 as stated: when the argument is not blank and no bookmark qualifies, the
\* output is exactly one item whose message holds the argument as it was
\* typed and whose payload is the default search url.
C4_NoMatchCarriesLiteralQuery ==
    (Dispatched /\ ~Blank(raw_arg) /\ \A r \in DOMAIN bookmarks : ~Qualifies(r)) =>
        /\ Len(items) = 1
        /\ IsInfix(NothingFoundFor, items[1].title)
        /\ IsInfix(unwrap(raw_arg), items[1].title)
        /\ items[1].arg = unwrap(default_search_url)

\* C4 amended: when the argument is not blank and no bookmark qualifies, the
\* output is exactly one item whose message is "nothing found for ", the
\* trimmed and ASCII-lower-cased argument, ", try search on website", and
\* whose payload is the default search url, the payload of the prompt item.
C4_NoMatchCarriesNormalizedQuery ==
    (Dispatched /\ ~Blank(raw_arg) /\ \A r \in DOMAIN bookmarks : ~Qualifies(r)) =>
        /\ Len(items) = 1
        /\ items[1].title =
              NothingFoundFor \o to_ascii_lowercase(trim(unwrap(raw_arg)))
                  \o TrySearchOnWebsite
        /\ items[1].arg = unwrap(default_search_url)
        /\ items[1].arg = empty(unwrap(default_search_url)).arg
        /\ \A r \in DOMAIN bookmarks : items[1] # to_item(bookmarks[r])
        /\ pc = "done" => output = Some(items)

\* An argument typed with upper-case letters and leading white space that no
\* bookmark of a collection of two matches.
C4_Witness ==
    /\ pc = "done"
    /\ raw_arg = Some(<<" ", "Z", "Z">>)
    /\ Len(bookmarks) = 2
    /\ Len(items) = 1

\* The bookmarks of the inputs, and the collections that differ from bs only
\* in the letter case of names.
KnownBookmarks ==
    { unwrap(from_json_value(e)) : e \in WellFormedEntries }
CaseVariants(bs) ==
    { v \in [DOMAIN bs -> KnownBookmarks] :
        \A i \in DOMAIN bs : to_lowercase(v[i].name) = to_lowercase(bs[i].name) }

\* C5: the ranking is the same, records and order, for every argument that
\* differs from the given one only in letter case and for every collection
\* that differs from the given one only in the letter case of names.
C5_CaseInsensitive ==
    (Dispatched /\ ranked) =>
        /\ \A other \in Arguments \ { None } :
              to_ascii_lowercase(unwrap(other)) = to_ascii_lowercase(unwrap(raw_arg))
                  => matched_refs(bookmarks, unwrap(normalize(other))) = matched
        /\ \A v \in CaseVariants(bookmarks) :
              matched_refs(v, unwrap(arg)) = matched

\* C6: every ranked reference is a position of the collection, no position is
\* ranked twice, and the collection is still the one read_bookmarks returned.
C6_Completeness ==
    (Dispatched /\ ranked) =>
        /\ \A k \in DOMAIN matched : matched[k] \in DOMAIN bookmarks
        /\ \A j, k \in DOMAIN matched : j # k => matched[j] # matched[k]
        /\ bookmarks = built
        /\ bookmarks = read_bookmarks(unwrap(contents).folders).built

\* A ranking that keeps two bookmarks of a collection of three.
C6_Witness ==
    /\ pc = "done"
    /\ ranked
    /\ Len(bookmarks) = 3
    /\ Len(matched) = 2

\* C7 as stated: a non-empty ranking is output as one item per ranked
\* bookmark, in the ranking's order, with the name as title, the caption
\* "Open in browser" as subtitle and the link as payload.
C7_DisplayProjectionAsStated ==
    (Dispatched /\ ranked /\ matched # <<>>) =>
        /\ Len(items) = Len(matched)
        /\ \A k \in DOMAIN matched :
              /\ items[k].title = bookmarks[matched[k]].name
              /\ items[k].subtitle = "Open in browser"
              /\ items[k].arg = bookmarks[matched[k]].link

\* C7 amended: a non-empty ranking is output as one item per ranked bookmark,
\* in the ranking's order, with the name as title, the caption
\* "Open in browser →" as subtitle and the link as payload.
C7_DisplayProjection ==
    (Dispatched /\ ranked /\ matched # <<>>) =>
        /\ Len(items) = Len(matched)
        /\ \A k \in DOMAIN matched :
              /\ items[k].title = bookmarks[matched[k]].name
              /\ items[k].subtitle = "Open in browser →"
              /\ items[k].arg = bookmarks[matched[k]].link
        /\ pc = "done" => output = Some(items)

\* Two bookmarks were output in an order that differs from the collection's.
C7_Witness ==
    /\ pc = "done"
    /\ Len(items) = 2
    /\ matched = <<2, 1>>
    /\ items[1].title = dashboard
    /\ items[2].title = Dashboard

\* The run has met a failure of the boundary: BOOKMARKS_FILE or
\* DEFAULT_SEARCH_URL is not set, the file is unreadable, or an entry of the
\* file lacks its title or its href.
BoundaryFailure ==
    \/ pc # "start" /\ bookmarks_file = None
    \/ bookmarks_file # None /\ pc # "env_url" /\ default_search_url = None
    \/ default_search_url # None /\ pc # "read_file" /\ contents = None
    \/ \E k \in DOMAIN SourceEntries : Malformed(SourceEntries[k])

\* C8: a run that meets a boundary failure halts with a panic (at the latest
\* in read_bookmarks, the step after the file is read), computes no score,
\* builds no bookmark from a malformed entry and outputs nothing.
C8_BoundaryFailuresHalt ==
    BoundaryFailure =>
        /\ pc \in {"panicked", "read_bookmarks"}
        /\ ~ranked
        /\ ~scored
        /\ raw_arg = None /\ arg = None
        /\ bookmarks = <<>>
        /\ items = <<>>
        /\ output = None
        /\ Len(built) <= Len(SourceEntries)
        /\ \A k \in DOMAIN built :
              /\ ~Malformed(SourceEntries[k])
              /\ built[k] = Bookmark(unwrap(SourceEntries[k].title),
                                     unwrap(SourceEntries[k].href))

\* The loader panicked on a malformed entry that follows a well-formed one.
C8_Witness ==
    /\ pc = "panicked"
    /\ Len(SourceEntries) = 2
    /\ Malformed(SourceEntries[2])
    /\ Len(built) = 1

\* C9: find returns true exactly when the query is a block of adjacent
\* characters of the lower-cased name, and leaves the bookmark as it was.
C9_FindIsSubstringOfLowercasedName ==
    [][pc = "test" =>
          /\ found' = Some(IsInfix(unwrap(arg), to_lowercase(bookmarks[1].name)))
          /\ bookmarks' = bookmarks]_vars

\* The unit test's case: "dash" is found in "Dashboard".
C9_Witness ==
    /\ pc = "tested"
    /\ bookmarks[1].name = Dashboard
    /\ arg = Some(<<"d", "a", "s", "h">>)
    /\ found = Some(TRUE)

\* The three shapes of the output.
PromptShape ==
    ~ranked /\ items = <<empty(unwrap(default_search_url))>>
NoMatchShape ==
    /\ ranked
    /\ matched = <<>>
    /\ items = <<default(unwrap(arg), unwrap(default_search_url))>>
RecordsShape ==
    /\ ranked
    /\ matched # <<>>
    /\ Len(items) = Len(matched)
    /\ \A k \in DOMAIN items :
          /\ items[k] = to_item(bookmarks[matched[k]])
          /\ items[k] # empty(unwrap(default_search_url))
          /\ items[k] # default(unwrap(arg), unwrap(default_search_url))

\* C10: the item list that reaches the output is not empty and has exactly
\* one of the three shapes; a non-blank argument against an empty collection
\* gives the single no-match item.
C10_OutputShape ==
    Dispatched =>
        /\ items # <<>>
        /\ PromptShape \/ NoMatchShape \/ RecordsShape
        /\ ~(PromptShape /\ NoMatchShape)
        /\ ~(PromptShape /\ RecordsShape)
        /\ ~(NoMatchShape /\ RecordsShape)
        /\ (~Blank(raw_arg) /\ bookmarks = <<>>) => (NoMatchShape /\ Len(items) = 1)
        /\ pc = "done" => output = Some(items)

\* A non-blank argument was dispatched against an empty collection.
C10_Witness ==
    /\ pc = "done"
    /\ raw_arg = Some(<<"d", "a", "s", "h">>)
    /\ bookmarks = <<>>
    /\ Len(items) = 1
====
